---- MODULE Spec2Model ----
(***************************************************************************)
(* Model of openedx/core/lib/request_utils.py: safe_get_host,              *)
(* course_id_from_url and CookieMonitoringMiddleware.process_request.      *)
(*                                                                         *)
(* Strings are sequences of tokens.  Every token stands for one fixed      *)
(* piece of text ("." "_" "/" "+" "?" are the characters themselves, the   *)
(* others are words that contain none of these characters), so that        *)
(* concatenation, splitting and matching on the token sequence are the     *)
(* same as on the text.                                                    *)
(***************************************************************************)
EXTENDS Integers, Sequences, FiniteSets, TLC

VARIABLES
    pc,             \* "start" before the call, "done" after it
    ALLOWED_HOSTS,  \* settings.ALLOWED_HOSTS: [type, items]
    SITE_NAME,      \* settings.SITE_NAME
    site_config,    \* the current site's configuration: [has_site_domain, site_domain]
    host,           \* what request.get_host() yields for the request
    get_host_called,\* whether request.get_host() was called
    host_result,    \* return value of safe_get_host: [value, source]
    url,            \* argument of course_id_from_url: [is_none, text]
    key_parses,     \* whether CourseKey.from_string accepts the matched text
    course_result,  \* outcome of course_id_from_url: [raised, kind, text]
    flag,           \* CAPTURE_COOKIE_SIZES.is_enabled()
    COOKIES,        \* request.COOKIES, in iteration order: Seq([name, value])
    COOKIES2,       \* the cookies of a second request (two-run comparison)
    outcome,        \* outcome of process_request(request): [raised, emitted]
    outcome2        \* outcome of process_request on the second request

vars == <<pc, ALLOWED_HOSTS, SITE_NAME, site_config, host, get_host_called,
          host_result, url, key_parses, course_result, flag, COOKIES,
          COOKIES2, outcome, outcome2>>

hostVars == <<ALLOWED_HOSTS, SITE_NAME, site_config, host, get_host_called, host_result>>
courseVars == <<url, key_parses, course_result>>
cookieVars == <<flag, COOKIES, COOKIES2, outcome, outcome2>>

----------------------------------------------------------------------------
(* Bounds *)

MaxHosts == 2       \* entries in ALLOWED_HOSTS
MaxTailLen == 5     \* tokens of the url after its head
MaxCookies == 3     \* cookies in one request
MaxValueLen == 2    \* characters in one cookie value
MaxPairCookies == 2 \* cookies in each request of the two-run comparison

----------------------------------------------------------------------------
(* Generic helpers *)

SeqsUpTo(S, n) == UNION {[1..k -> S] : k \in 0..n}

Range(s) == {s[i] : i \in 1..Len(s)}

RECURSIVE SumSizes(_)
SumSizes(d) == IF d = <<>> THEN 0 ELSE Head(d).size + SumSizes(Tail(d))

----------------------------------------------------------------------------
(* safe_get_host *)

HostNames == {<<"lms">>, <<"evil">>, <<"tenant">>}

NoHostResult == [value |-> <<>>, source |-> "none"]

\* isinstance(settings.ALLOWED_HOSTS, (list, tuple)) and '*' not in settings.ALLOWED_HOSTS
ProperlySetNoStarCheck(allowed) == allowed.type \in {"list", "tuple"}

ProperlySet(allowed) ==
    /\ allowed.type \in {"list", "tuple"}
    /\ <<"*">> \notin Range(allowed.items)

\* configuration_helpers.get_value(name, default), name = 'site_domain'
get_value(config, default) ==
    IF config.has_site_domain THEN config.site_domain ELSE default

AllowedHostsValues ==
    {[type |-> t, items |-> it] :
        t \in {"list", "tuple"}, it \in SeqsUpTo(HostNames \cup {<<"*">>}, MaxHosts)}
    \cup {[type |-> "str", items |-> <<h>>] : h \in HostNames \cup {<<"*">>}}
    \cup {[type |-> "None", items |-> <<>>]}

SiteConfigs ==
    {[has_site_domain |-> FALSE, site_domain |-> <<>>]}
    \cup {[has_site_domain |-> TRUE, site_domain |-> d] : d \in HostNames}

safe_get_host ==
    /\ pc = "start"
    /\ IF ProperlySet(ALLOWED_HOSTS)
       THEN /\ get_host_called' = TRUE
            /\ host_result' = [value |-> host, source |-> "get_host"]
       ELSE /\ get_host_called' = FALSE
            /\ host_result' = [value |-> get_value(site_config, SITE_NAME),
                               source |-> "configuration"]
    /\ pc' = "done"
    /\ UNCHANGED <<ALLOWED_HOSTS, SITE_NAME, site_config, host, courseVars, cookieVars>>

----------------------------------------------------------------------------
(* CookieMonitoringMiddleware.process_request *)

Separators == {".", "_"}

CookieNames ==
    { <<"a">>, <<"a", ".", "b">>, <<"a", "_", "b">>, <<"b", "_", "a">>,
      <<"max", "_", "a">>, <<".", "a">>, <<"a", ".", "b", "_", "a">> }

PairCookieNames == { <<"b">>, <<"a", ".", "b">>, <<"a", "_", "b">>, <<"max", "_", "a">> }

\* cookie values that differ in content at equal length
PairValues == { <<>>, <<"x">>, <<"y">>, <<"x", "x">>, <<"x", "y">> }

\* the first index of name that holds a separator, Len(name)+1 when there is none
RECURSIVE FirstSeparator(_, _)
FirstSeparator(name, i) ==
    IF i > Len(name) THEN i
    ELSE IF name[i] \in Separators THEN i
    ELSE FirstSeparator(name, i + 1)

\* re.split('[._]', name, 1)[0]
GroupingName(name) == SubSeq(name, 1, FirstSeparator(name, 1) - 1)

\* if grouping_name and grouping_name != name
InGroupNoNameCheck(name) == GroupingName(name) # <<>>

InGroup(name) == GroupingName(name) # <<>> /\ GroupingName(name) # name

\* len(value)
CookieSizeDistinctChars(value) == Cardinality(Range(value))

CookieSize(value) == Len(value)

\* cookie_names_to_size after the loop: a dict in insertion order
RECURSIVE CookieNamesToSize(_)
CookieNamesToSize(cookies) ==
    IF cookies = <<>> THEN <<>>
    ELSE <<[name |-> Head(cookies).name, size |-> CookieSize(Head(cookies).value)]>>
         \o CookieNamesToSize(Tail(cookies))

\* d[key] = d.get(key, 0) + size, keeping the position of an existing key
RECURSIVE AddToDict(_, _, _)
AddToDict(d, key, size) ==
    IF d = <<>> THEN <<[name |-> key, size |-> 0 + size]>>
    ELSE IF Head(d).name = key
         THEN <<[name |-> key, size |-> Head(d).size + size]>> \o Tail(d)
         ELSE <<Head(d)>> \o AddToDict(Tail(d), key, size)

\* cookie_groups_to_size after the loop, starting from the dict acc
RECURSIVE CookieGroupsToSize(_, _)
CookieGroupsToSize(cookies, acc) ==
    IF cookies = <<>> THEN acc
    ELSE LET name == Head(cookies).name
             cookie_size == CookieSize(Head(cookies).value)
         IN  CookieGroupsToSize(Tail(cookies),
                IF InGroup(name)
                THEN AddToDict(acc, GroupingName(name), cookie_size)
                ELSE acc)

\* max(d, key=lambda name: d[name]) for a non-empty dict: the first key, in
\* iteration order, whose value is the largest
RECURSIVE MaxKeyFrom(_, _)
MaxKeyFrom(d, best) ==
    IF d = <<>> THEN best
    ELSE MaxKeyFrom(Tail(d), IF Head(d).size > best.size THEN Head(d) ELSE best)

MaxKeyLast(d) == d[Len(d)]

MaxKey(d) == MaxKeyFrom(Tail(d), Head(d))

\* 'cookies.{}.group.size'.format(name)
GroupAttributeName(name) == <<"cookies", ".">> \o name \o <<".", "group", ".", "size">>

CookiesMaxName == <<"cookies", ".", "max", ".", "name">>
CookiesMaxSize == <<"cookies", ".", "max", ".", "size">>
CookiesMaxGroupName == <<"cookies", ".", "max", ".", "group", ".", "name">>
CookiesMaxGroupSize == <<"cookies", ".", "max", ".", "group", ".", "size">>
CookiesTotalSize == <<"cookies", "_", "total", "_", "size">>

\* set_custom_attribute(name, value) with an integer / a string value
SetInt(name, n) == [call |-> "set_custom_attribute", name |-> name, int |-> n, str |-> <<>>]
SetStr(name, s) == [call |-> "set_custom_attribute", name |-> name, int |-> 0, str |-> s]
\* log.debug(u'%s = %d', name, n)
LogDebug(name, n) == [call |-> "log.debug", name |-> name, int |-> n, str |-> <<>>]

\* for name, size in cookie_groups_to_size.items(): ...
RECURSIVE GroupEmissions(_)
GroupEmissions(groups) ==
    IF groups = <<>> THEN <<>>
    ELSE <<SetInt(GroupAttributeName(Head(groups).name), Head(groups).size),
           LogDebug(GroupAttributeName(Head(groups).name), Head(groups).size)>>
         \o GroupEmissions(Tail(groups))

\* the body of process_request once both dicts are known to be non-empty
Emissions(cookie_names_to_size, cookie_groups_to_size) ==
    LET max_cookie == MaxKey(cookie_names_to_size)
        max_group == MaxKey(cookie_groups_to_size)
        max_group_cookie == IF max_group.size < max_cookie.size THEN max_cookie ELSE max_group
        total_cookie_size == SumSizes(cookie_names_to_size)
    IN  GroupEmissions(cookie_groups_to_size)
        \o << SetStr(CookiesMaxName, max_cookie.name),
              SetInt(CookiesMaxSize, max_cookie.size),
              SetStr(CookiesMaxGroupName, max_group_cookie.name),
              SetInt(CookiesMaxGroupSize, max_group_cookie.size),
              SetInt(CookiesTotalSize, total_cookie_size),
              LogDebug(CookiesTotalSize, total_cookie_size) >>

NoOutcome == [raised |-> "", emitted |-> <<>>]

\* process_request(self, request): what it raises and what it emits, in order
process_request(enabled, cookies) ==
    LET cookie_names_to_size == CookieNamesToSize(cookies)
        cookie_groups_to_size == CookieGroupsToSize(cookies, <<>>)
    IN  IF ~enabled THEN NoOutcome
        ELSE IF cookie_names_to_size = <<>>
             THEN [raised |-> "ValueError", emitted |-> <<>>]    \* max() of an empty dict
        ELSE IF cookie_groups_to_size = <<>>
             THEN [raised |-> "ValueError", emitted |-> <<>>]    \* max() of an empty dict
        ELSE [raised |-> "", emitted |-> Emissions(cookie_names_to_size, cookie_groups_to_size)]

DistinctNames(cookies) ==
    \A i, j \in 1..Len(cookies) : cookies[i].name = cookies[j].name => i = j

\* the requests: dicts of at most n cookies with names in N and values in V
Requests(N, V, n) ==
    {c \in SeqsUpTo([name : N, value : V], n) : DistinctNames(c)}

ProcessRequest ==
    /\ pc = "start"
    /\ outcome' = process_request(flag, COOKIES)
    /\ pc' = "done"
    /\ UNCHANGED <<hostVars, courseVars, flag, COOKIES, COOKIES2, outcome2>>

\* the orders in which a dict of n cookies can be iterated
IterationOrders(n) ==
    {f \in [1..n -> 1..n] : \A i, j \in 1..n : f[i] = f[j] => i = j}

\* one call for each of two requests: the second request carries cookies of
\* the same names, in any order, with values of the same lengths
ProcessTwoRequests ==
    /\ pc = "start"
    /\ \E other \in [1..Len(COOKIES) -> PairValues] :
       \E order \in IterationOrders(Len(COOKIES)) :
          /\ \A i \in 1..Len(COOKIES) : Len(other[i]) = Len(COOKIES[i].value)
          /\ COOKIES2' = [i \in 1..Len(COOKIES) |->
                             [name |-> COOKIES[order[i]].name, value |-> other[order[i]]]]
    /\ outcome' = process_request(flag, COOKIES)
    /\ outcome2' = process_request(flag, COOKIES2')
    /\ pc' = "done"
    /\ UNCHANGED <<hostVars, courseVars, flag, COOKIES>>

NoUrl == [is_none |-> TRUE, text |-> <<>>]
NoCourseResult == [raised |-> "", kind |-> "pending", text |-> <<>>]

----------------------------------------------------------------------------
(* course_id_from_url *)

UrlTokens == {"/", "+", "?", "courses", "v1", "x"}

UrlHeads ==
    { <<>>,
      <<"/", "courses", "/">>,
      <<"/", "x", "/", "courses", "/">>,
      <<"/", "courses", "/", "v1", "/", "x", "/", "courses", "/">> }

\* the first index k >= i of s with s[k] in Stop, Len(s)+1 when there is none
RECURSIVE RunEnd(_, _, _)
RunEnd(s, i, Stop) ==
    IF i > Len(s) THEN i
    ELSE IF s[i] \in Stop THEN i
    ELSE RunEnd(s, i + 1, Stop)

\* settings.COURSE_ID_PATTERN, (?P<course_id>[^/+]+(/|\+)[^/+]+(/|\+)[^/?]+),
\* matched at index j of s: the index after the match, 0 when it does not match
CourseIdEnd(s, j) ==
    LET e1 == RunEnd(s, j, {"/", "+"})
        e2 == RunEnd(s, e1 + 1, {"/", "+"})
        e3 == RunEnd(s, e2 + 1, {"/", "?"})
    IN  IF e1 > j /\ e1 <= Len(s) /\ e2 > e1 + 1 /\ e2 <= Len(s) /\ e3 > e2 + 1
        THEN e3 ELSE 0

\* the lookahead v[0-9]+/[^/]+ at index j of s
NoLookahead(s, j) == FALSE

VersionedRoute(s, j) ==
    /\ j + 2 <= Len(s)
    /\ s[j] = "v1"
    /\ s[j + 1] = "/"
    /\ s[j + 2] # "/"

\* the literal /courses/ at index i of s
CoursesAt(s, i) ==
    /\ i + 2 <= Len(s)
    /\ s[i] = "/" /\ s[i + 1] = "courses" /\ s[i + 2] = "/"

\* COURSE_REGEX.match(s): tries the shortest prefix (.*?/courses/) first.
\* The result is [matched, course_id].
RECURSIVE RegexMatchFrom(_, _)
RegexMatchFrom(s, i) ==
    IF i > Len(s) THEN [matched |-> FALSE, course_id |-> <<>>]
    ELSE IF /\ CoursesAt(s, i)
            /\ ~VersionedRoute(s, i + 3)
            /\ CourseIdEnd(s, i + 3) # 0
         THEN [matched |-> TRUE,
               course_id |-> SubSeq(s, i + 3, CourseIdEnd(s, i + 3) - 1)]
         ELSE RegexMatchFrom(s, i + 1)

COURSE_REGEX_match(s) == RegexMatchFrom(s, 1)

\* CourseKey.from_string(course_id): the key, or InvalidKeyError
from_string(course_id, accepted) ==
    IF accepted THEN [raised |-> "", kind |-> "CourseKey", text |-> course_id]
    ELSE [raised |-> "InvalidKeyError", kind |-> "pending", text |-> <<>>]

ReturnNone == [raised |-> "", kind |-> "None", text |-> <<>>]

course_id_from_url(u, accepted) ==
    IF u.is_none \/ u.text = <<>> THEN ReturnNone            \* if not url
    ELSE LET match == COURSE_REGEX_match(u.text)
         IN  IF ~match.matched THEN ReturnNone                \* if match is None
             ELSE LET parsed == from_string(match.course_id, accepted)
                  IN  IF parsed.raised = "InvalidKeyError"    \* except InvalidKeyError
                      THEN ReturnNone
                      ELSE parsed

Urls ==
    {[is_none |-> TRUE, text |-> <<>>]}
    \cup {[is_none |-> FALSE, text |-> h \o t] :
             h \in UrlHeads, t \in SeqsUpTo(UrlTokens, MaxTailLen)}

CourseIdFromUrl ==
    /\ pc = "start"
    /\ course_result' = course_id_from_url(url, key_parses)
    /\ pc' = "done"
    /\ UNCHANGED <<hostVars, url, key_parses, cookieVars>>

----------------------------------------------------------------------------
(* Specifications *)

HostIdle ==
    /\ ALLOWED_HOSTS = [type |-> "list", items |-> <<>>]
    /\ SITE_NAME = <<"lms">>
    /\ site_config = [has_site_domain |-> FALSE, site_domain |-> <<>>]
    /\ host = <<"lms">>
    /\ get_host_called = FALSE
    /\ host_result = NoHostResult

CourseIdle ==
    /\ url = NoUrl
    /\ key_parses = FALSE
    /\ course_result = NoCourseResult

CookieIdle ==
    /\ flag = FALSE
    /\ COOKIES = <<>>
    /\ COOKIES2 = <<>>
    /\ outcome = NoOutcome
    /\ outcome2 = NoOutcome

InitHost ==
    /\ pc = "start"
    /\ ALLOWED_HOSTS \in AllowedHostsValues
    /\ SITE_NAME \in {<<"lms">>, <<"tenant">>}
    /\ site_config \in SiteConfigs
    /\ host \in HostNames
    /\ get_host_called = FALSE
    /\ host_result = NoHostResult
    /\ CourseIdle
    /\ CookieIdle

SpecHost == InitHost /\ [][safe_get_host]_vars

InitCookies ==
    /\ pc = "start"
    /\ HostIdle
    /\ CourseIdle
    /\ flag \in BOOLEAN
    /\ COOKIES \in Requests(CookieNames, SeqsUpTo({"x"}, MaxValueLen), MaxCookies)
    /\ COOKIES2 = <<>>
    /\ outcome = NoOutcome
    /\ outcome2 = NoOutcome

InitCourse ==
    /\ pc = "start"
    /\ HostIdle
    /\ url \in Urls
    /\ key_parses \in BOOLEAN
    /\ course_result = NoCourseResult
    /\ CookieIdle

SpecCourse == InitCourse /\ [][CourseIdFromUrl]_vars

SpecCookies == InitCookies /\ [][ProcessRequest]_vars

InitPair ==
    /\ pc = "start"
    /\ HostIdle
    /\ CourseIdle
    /\ flag \in BOOLEAN
    /\ COOKIES \in Requests(PairCookieNames, PairValues, MaxPairCookies)
    /\ COOKIES2 = <<>>
    /\ outcome = NoOutcome
    /\ outcome2 = NoOutcome

SpecPair == InitPair /\ [][ProcessTwoRequests]_vars

----------------------------------------------------------------------------
(* Properties of safe_get_host (checked under SpecHost) *)

\* ALLOWED_HOSTS is a list or tuple that does not contain '*'
TrustedAllowedHosts ==
    /\ ALLOWED_HOSTS.type \in {"list", "tuple"}
    /\ \A i \in 1..Len(ALLOWED_HOSTS.items) : ALLOWED_HOSTS.items[i] # <<"*">>

\* C1: safe_get_host returns the value of request.get_host() only if
\* ALLOWED_HOSTS is a list or tuple without '*'; otherwise get_host() is not
\* called and what is returned does not come from it.
C1_GetHostOnlyWhenTrusted ==
    pc = "done" =>
        /\ host_result.source = "get_host" => TrustedAllowedHosts
        /\ get_host_called => TrustedAllowedHosts
        /\ ~TrustedAllowedHosts =>
              /\ ~get_host_called
              /\ host_result.source = "configuration"
              /\ host_result.value \in {SITE_NAME, site_config.site_domain}

C1_Witness ==
    /\ pc = "done"
    /\ ALLOWED_HOSTS.type = "list"
    /\ <<"*">> \in Range(ALLOWED_HOSTS.items)
    /\ host = <<"evil">>
    /\ ~get_host_called
    /\ host_result.value # host

\* C2: when ALLOWED_HOSTS is not a list/tuple or contains '*', safe_get_host
\* returns settings.SITE_NAME, whatever the site configuration is.
C2_ReturnsSiteName ==
    (pc = "done" /\ ~TrustedAllowedHosts) => host_result.value = SITE_NAME

----------------------------------------------------------------------------
(* Properties of course_id_from_url (checked under SpecCourse) *)

NotIn(s, from, to, Stop) == \A k \in from..to : s[k] \notin Stop

\* s matches ^(.*?/courses/)(?!v[0-9]+/[^/]+)<course id>: some occurrence of
\* /courses/ is followed by three non-empty parts separated by / or +, and
\* not by v<digits>/<something>
MatchesCoursePattern(s) ==
    \E i \in 1..Len(s) :
        /\ i + 2 <= Len(s)
        /\ SubSeq(s, i, i + 2) = <<"/", "courses", "/">>
        /\ ~(i + 5 <= Len(s) /\ s[i + 3] = "v1" /\ s[i + 4] = "/" /\ s[i + 5] # "/")
        /\ \E a \in (i + 4)..Len(s) : \E b \in (a + 2)..(Len(s) - 1) :
              /\ s[a] \in {"/", "+"}
              /\ s[b] \in {"/", "+"}
              /\ NotIn(s, i + 3, a - 1, {"/", "+"})
              /\ NotIn(s, a + 1, b - 1, {"/", "+"})
              /\ s[b + 1] \notin {"/", "?"}

\* a versioned course-API route: /courses/v<n>/<segment>... with no further
\* /courses/ in it
VersionedApiUrl(s) ==
    /\ Len(s) >= 6
    /\ SubSeq(s, 1, 5) = <<"/", "courses", "/", "v1", "/">>
    /\ s[6] # "/"
    /\ \A i \in 2..Len(s) : ~(i + 2 <= Len(s) /\ SubSeq(s, i, i + 2) = <<"/", "courses", "/">>)

\* C9: course_id_from_url never raises; it returns None when the url is None
\* or empty, when the url does not match the pattern (versioned course-API
\* routes included) and when the parser rejects the matched text; it returns
\* the course key exactly when the url matches and the key parses.
C9_NoneForInvalidInput ==
    pc = "done" =>
        /\ course_result.raised = ""
        /\ course_result.kind \in {"None", "CourseKey"}
        /\ (url.is_none \/ url.text = <<>>) => course_result.kind = "None"
        /\ (~url.is_none /\ ~MatchesCoursePattern(url.text)) => course_result.kind = "None"
        /\ (~url.is_none /\ VersionedApiUrl(url.text)) => course_result.kind = "None"
        /\ ~key_parses => course_result.kind = "None"
        /\ course_result.kind = "CourseKey" <=>
              (~url.is_none /\ MatchesCoursePattern(url.text) /\ key_parses)

C9_Witness ==
    /\ pc = "done"
    /\ ~url.is_none
    /\ VersionedApiUrl(url.text)
    /\ Len(url.text) >= 8
    /\ key_parses
    /\ course_result.kind = "None"

----------------------------------------------------------------------------
(* Properties of process_request (checked under SpecCookies and SpecPair) *)

Emitted == outcome.emitted

\* the positions of the set_custom_attribute calls with the given name
AttributeCalls(name) ==
    {i \in 1..Len(Emitted) :
        Emitted[i].call = "set_custom_attribute" /\ Emitted[i].name = name}

SummaryNames ==
    {CookiesMaxName, CookiesMaxSize, CookiesMaxGroupName, CookiesMaxGroupSize, CookiesTotalSize}

Cookies == 1..Len(COOKIES)

SizeOfCookie(i) == Len(COOKIES[i].value)

\* name is the non-empty, separator-free prefix g followed by '.' or '_'
HasPrefix(name, g) ==
    /\ g # <<>>
    /\ Len(name) > Len(g)
    /\ SubSeq(name, 1, Len(g)) = g
    /\ \A k \in 1..Len(g) : g[k] \notin Separators
    /\ name[Len(g) + 1] \in Separators

\* the group prefixes of the request
RequestGroups ==
    {g \in UNION {{SubSeq(COOKIES[i].name, 1, k) : k \in 1..Len(COOKIES[i].name)} : i \in Cookies} :
        \E i \in Cookies : HasPrefix(COOKIES[i].name, g)}

RECURSIVE SumOver(_, _)
SumOver(S, f) ==
    IF S = {} THEN 0
    ELSE LET x == CHOOSE y \in S : TRUE IN f[x] + SumOver(S \ {x}, f)

GroupSum(g) ==
    SumOver({i \in Cookies : HasPrefix(COOKIES[i].name, g)},
            [i \in Cookies |-> SizeOfCookie(i)])

Completed == pc = "done" /\ flag /\ outcome.raised = ""

\* C3: with the flag enabled process_request never raises and emits the five
\* summary attributes for every request, also one without cookies or groups.
C3_AlwaysEmitsSummary ==
    (pc = "done" /\ flag) =>
        /\ outcome.raised = ""
        /\ \A n \in SummaryNames : AttributeCalls(n) # {}

\* cookies.<cookie_name>.size
CookieAttributeName(name) == <<"cookies", ".">> \o name \o <<".", "size">>

IsLargestGroup(n) ==
    /\ n \in {GroupSum(g) : g \in RequestGroups} \cup {SizeOfCookie(i) : i \in Cookies}
    /\ \A g \in RequestGroups : GroupSum(g) <= n
    /\ \A i \in Cookies : SizeOfCookie(i) <= n

\* C5: every emitted cookies.max.group.size is the maximum over the group sums
\* and the single cookie sizes, and cookies.max.group.name names a group or a
\* cookie of that size.
C5_MaxGroupIsLargest ==
    Completed =>
        /\ \A c \in AttributeCalls(CookiesMaxGroupSize) : IsLargestGroup(Emitted[c].int)
        /\ \A c \in AttributeCalls(CookiesMaxGroupName) :
              \/ \E g \in RequestGroups : Emitted[c].str = g /\ IsLargestGroup(GroupSum(g))
              \/ \E i \in Cookies :
                    Emitted[c].str = COOKIES[i].name /\ IsLargestGroup(SizeOfCookie(i))

\* C6: every emitted cookies.<g>.group.size is the sum of the sizes of the
\* cookies whose name is g followed by a separator.
C6_GroupSizeIsSum ==
    Completed =>
        \A g \in RequestGroups :
            \A c \in AttributeCalls(GroupAttributeName(g)) : Emitted[c].int = GroupSum(g)

\* C7: every emitted cookies.max.size is at least the size of every cookie,
\* and cookies.max.name names a cookie of the request of that size.
C7_MaxCookieIsLargest ==
    Completed =>
        /\ \A c \in AttributeCalls(CookiesMaxSize) :
              \A i \in Cookies : SizeOfCookie(i) <= Emitted[c].int
        /\ \A n \in AttributeCalls(CookiesMaxName) :
              \E i \in Cookies :
                  /\ COOKIES[i].name = Emitted[n].str
                  /\ \A c \in AttributeCalls(CookiesMaxSize) : SizeOfCookie(i) = Emitted[c].int

C7_Witness ==
    /\ Completed
    /\ AttributeCalls(CookiesMaxSize) # {}
    /\ AttributeCalls(CookiesMaxName) # {}
    /\ \E i, j \in Cookies : i < j /\ SizeOfCookie(i) > SizeOfCookie(j)
    /\ \E i, j \in Cookies : i < j /\ SizeOfCookie(i) < SizeOfCookie(j)

\* the two requests carry cookies of the same names, and two cookies of the
\* same name have values of the same length
SameNamesAndLengths ==
    /\ Len(COOKIES) = Len(COOKIES2)
    /\ \A i \in Cookies : \E j \in 1..Len(COOKIES2) :
          /\ COOKIES[i].name = COOKIES2[j].name
          /\ Len(COOKIES[i].value) = Len(COOKIES2[j].value)

\* the two requests carry their cookies in the same order
SameOrder ==
    /\ Len(COOKIES) = Len(COOKIES2)
    /\ \A i \in Cookies : COOKIES[i].name = COOKIES2[i].name

\* C8 as stated: two requests whose cookies have the same names and values of
\* the same lengths make process_request emit the same sequence of attributes
\* and log records.
C8_SameNamesSameEmissions ==
    (pc = "done" /\ SameNamesAndLengths) => outcome.emitted = outcome2.emitted

\* C8 as amended: two requests whose cookies have the same names in the same
\* order and values of the same lengths make process_request emit the same
\* sequence of attributes and log records (and raise alike).
C8_DependsOnlyOnLengths ==
    (pc = "done" /\ SameNamesAndLengths /\ SameOrder) => outcome = outcome2

C8_Witness ==
    /\ pc = "done"
    /\ flag
    /\ SameNamesAndLengths
    /\ SameOrder
    /\ Len(COOKIES) >= 2
    /\ \E i \in Cookies : COOKIES[i].value # COOKIES2[i].value /\ InGroup(COOKIES[i].name)
    /\ outcome.raised = ""
    /\ outcome2.emitted # <<>>

\* the set_custom_attribute calls for the groups of the request
GroupCalls ==
    {c \in 1..Len(Emitted) :
        /\ Emitted[c].call = "set_custom_attribute"
        /\ \E g \in RequestGroups : Emitted[c].name = GroupAttributeName(g)}

\* the ways to read one emitted size for every group of the request
GroupReadings ==
    {f \in [RequestGroups -> GroupCalls] :
        \A g \in RequestGroups : Emitted[f[g]].name = GroupAttributeName(g)}

\* C10: cookies.max.size <= cookies.max.group.size <= cookies_total_size,
\* every emitted group size is <= cookies.max.group.size, and the emitted
\* group sizes, one for each group, sum to at most cookies_total_size.
C10_SizesAreOrdered ==
    Completed =>
        /\ \A ms \in AttributeCalls(CookiesMaxSize) : \A mg \in AttributeCalls(CookiesMaxGroupSize) :
              Emitted[ms].int <= Emitted[mg].int
        /\ \A mg \in AttributeCalls(CookiesMaxGroupSize) : \A t \in AttributeCalls(CookiesTotalSize) :
              Emitted[mg].int <= Emitted[t].int
        /\ \A c \in GroupCalls : \A mg \in AttributeCalls(CookiesMaxGroupSize) :
              Emitted[c].int <= Emitted[mg].int
        /\ \A t \in AttributeCalls(CookiesTotalSize) : \A f \in GroupReadings :
              SumOver(RequestGroups, [g \in RequestGroups |-> Emitted[f[g]].int]) <= Emitted[t].int

====
